---- MODULE Spec2Model ----
(***************************************************************************)
(* Simple-Blockchain-App (src/main.cpp): simpleHash, createBlock and the    *)
(* interactive chain-building loop and report of main().                   *)
(*                                                                         *)
(* Strings are sequences of byte values (0..255).  Standard input is a     *)
(* byte buffer fed by a line-oriented terminal: the user types a whole     *)
(* line (or closes the input) when the program is blocked in a read.       *)
(***************************************************************************)
EXTENDS Integers, Sequences, FiniteSets, TLC

VARIABLES
    charSigned,   \* build: is plain char a signed type (bytes 128..255 negative)
    blockchain,   \* Block blockchain[MAX_BLOCKS], indexed 0..MAX_BLOCKS-1
    blockCount,   \* int blockCount
    choice,       \* char choice
    pc,           \* position of main()
    i,            \* loop variable of the report loop
    cin_buf,      \* bytes typed and not yet consumed from std::cin
    cin_closed,   \* the user has closed standard input (end of file)
    eofbit,       \* std::cin's eofbit
    failbit,      \* std::cin's failbit
    events,       \* history: prompts, reads, appends and report lines, in order
    resp,         \* history: what the user typed at each block's data prompt
    odd,          \* number of unusual lines the user has typed so far
    exitCode,     \* value returned by main(); -1 while it runs
    hPc,          \* position inside one call of simpleHash
    hInput,       \* simpleHash's parameter  input
    hI,           \* simpleHash's loop variable  i
    hHash,        \* simpleHash's accumulator  int hash
    hArray,       \* simpleHash's  hashArray, the characters written so far
    hResult       \* the string simpleHash returned

mainVars == <<blockchain, blockCount, choice, pc, i, cin_buf, cin_closed,
              eofbit, failbit, events, resp, odd, exitCode>>
hashVars == <<hPc, hInput, hI, hHash, hArray, hResult>>
vars == <<charSigned, mainVars, hashVars>>

----------------------------------------------------------------------------
(* Bounds of the model *)

\* how many unusual lines (anything but plain data, "y" and "n") a user types
MaxOdd == 1
\* longest string over HashBytes that is handed to simpleHash on its own
MaxHashLen == 2
\* length of the long run of '~' handed to simpleHash: 126 * n(n+1)/2 passes
\* 2^31 - 1 from n = 5838 on
LongLen == 5840

----------------------------------------------------------------------------
(* Program constants and character codes *)

MAX_BLOCKS == 10
INT_MAX == 2147483647
INT_MIN == -INT_MAX - 1

CH_NL == 10
CH_SP == 32
CH_0 == 48
CH_A == 65
CH_y == 121
CH_n == 110

GenesisData == <<71, 101, 110, 101, 115, 105, 115, 32, 66, 108, 111, 99, 107>>
Sentinel == <<48, 48, 48, 48, 48, 48, 48, 48>>
EmptyString == <<>>

\* a default-constructed Block: three empty strings
EmptyBlock == [data |-> EmptyString, prevHash |-> EmptyString, hash |-> EmptyString]

----------------------------------------------------------------------------
(* simpleHash *)

\* (int)input[i]: the byte as an int, sign-extended where char is signed
CharToInt(c) == IF charSigned /\ c > 127 THEN c - 256 ELSE c

\* a + b in a 32-bit int, wrapping on overflow
Add32(a, b) ==
    IF b > 0 /\ a > INT_MAX - b THEN (a - INT_MAX - 1) + (b - INT_MAX - 1)
    ELSE IF b < 0 /\ a < INT_MIN - b THEN (a + INT_MAX + 1) + (b + INT_MAX + 1)
    ELSE a + b

\* the term of one character: (int)input[i] * (i + 1), for 0-based i
Term_NoPosition(c, idx) == CharToInt(c)

Term(c, idx) == CharToInt(c) * (idx + 1)

\* hash += term
Accumulate(hash, c, idx) == Add32(hash, Term(c, idx))

\* (hash >> (i * 4)) & 0xF  (arithmetic shift of a two's complement int)
Nibble(hash, idx) == (hash \div (16 ^ idx)) % 16

\* value < 10 ? '0' + value : 'A' + (value - 10)
HexDigit_NoOffset(value) == IF value < 10 THEN CH_0 + value ELSE CH_A + value

HexDigit(value) == IF value < 10 THEN CH_0 + value ELSE CH_A + (value - 10)

\* the value of hash after n turns of the loop (each running total is
\* computed once, then the next term is added to it)
RECURSIVE HashSum(_, _)
HashSum(input, n) ==
    IF n = 0 THEN 0
    ELSE CHOOSE h \in {Accumulate(prev, input[n], n - 1) :
                           prev \in {HashSum(input, n - 1)}} : TRUE

\* string(hashArray): the characters before the first null terminator
CString(arr) ==
    LET nul == CHOOSE k \in 1..Len(arr) :
                   arr[k] = 0 /\ \A j \in 1..(k - 1) : arr[j] # 0
    IN  SubSeq(arr, 1, nul - 1)

\* the whole function, for the strings the chain hashes
simpleHash(input) ==
    LET hashArray(hash) ==
            [k \in 1..9 |-> IF k <= 8 THEN HexDigit(Nibble(hash, k - 1)) ELSE 0]
    IN  CHOOSE str \in {CString(hashArray(hash)) :
                            hash \in {HashSum(s, Len(s)) : s \in {input}}} : TRUE

----------------------------------------------------------------------------
(* createBlock *)

createBlock_HashDataOnly(data, prevHash) ==
    [data |-> data, prevHash |-> prevHash, hash |-> simpleHash(data)]

createBlock(data, prevHash) ==
    [data |-> data, prevHash |-> prevHash, hash |-> simpleHash(data \o prevHash)]

----------------------------------------------------------------------------
(* std::cin: getline, operator>>(char&) and ignore() on the byte buffer *)

IsSpace(c) == c \in {9, 10, 11, 12, 13, 32}

HasNewline(buf) == \E k \in 1..Len(buf) : buf[k] = CH_NL

\* position of the first newline of a buffer that has one
FirstNewline(buf) == CHOOSE k \in 1..Len(buf) :
                        buf[k] = CH_NL /\ \A j \in 1..(k - 1) : buf[j] # CH_NL

RECURSIVE SkipWs(_)
SkipWs(buf) == IF buf # <<>> /\ IsSpace(Head(buf)) THEN SkipWs(Tail(buf)) ELSE buf

good == ~eofbit /\ ~failbit

\* getline(cin, data) returns without waiting for the user
GetlineReady == ~good \/ HasNewline(cin_buf) \/ cin_closed

\* the line getline stores in the (freshly constructed, empty) string data
GetlineData ==
    IF ~good THEN EmptyString
    ELSE IF HasNewline(cin_buf) THEN SubSeq(cin_buf, 1, FirstNewline(cin_buf) - 1)
    ELSE cin_buf

GetlineStream ==
    IF ~good THEN
        /\ failbit' = TRUE
        /\ UNCHANGED <<cin_buf, eofbit>>
    ELSE IF HasNewline(cin_buf) THEN
        /\ cin_buf' = SubSeq(cin_buf, FirstNewline(cin_buf) + 1, Len(cin_buf))
        /\ UNCHANGED <<eofbit, failbit>>
    ELSE
        /\ cin_buf' = <<>>
        /\ eofbit' = TRUE
        /\ failbit' = (cin_buf = <<>>)

\* cin >> choice returns without waiting for the user
ExtractReady == ~good \/ SkipWs(cin_buf) # <<>> \/ cin_closed

\* a character was extracted into choice
ExtractOk == good /\ SkipWs(cin_buf) # <<>>

\* cin.ignore() returns without waiting for the user
IgnoreReady == ~good \/ cin_buf # <<>> \/ cin_closed

----------------------------------------------------------------------------
(* History records *)

Event(kind, n) == [kind |-> kind, n |-> n]

\* no character was extracted
NoChar == 0 - 1

\* main() has not returned yet
Running == 0 - 1

\* resp[k]: the user's reaction to the data prompt of block k
NoResp == [typed |-> FALSE, closed |-> FALSE, line |-> EmptyString]

----------------------------------------------------------------------------
(* The user at the terminal *)

PlainData == <<97, 32, 233>>                    \* 'a', a space, a byte above 127
OddData == {EmptyString}                        \* an empty line
PlainAnswers == {<<CH_y>>, <<CH_n>>}            \* "y", "n"
OddAnswers == {<<89>>, <<121, 101, 115>>, <<32, 121>>}
                                                \* "Y", "yes", " y"
BlankAnswer == EmptyString                      \* Enter alone

AtDataPrompt == pc = "getline" /\ ~GetlineReady
\* cin >> choice has consumed the white space it found and waits for more
AtAnswerPrompt == \/ pc = "extract" /\ ~ExtractReady /\ cin_buf = <<>>
                  \/ pc = "ignore" /\ ~IgnoreReady

Offered == IF pc = "getline" THEN {PlainData} \cup OddData
           ELSE PlainAnswers \cup OddAnswers \cup {BlankAnswer}

IsOdd(line) == IF pc = "getline" THEN line \in OddData ELSE line \in OddAnswers

\* the user types one line and presses Enter while the program waits in a read
UserTypeLine ==
    /\ AtDataPrompt \/ AtAnswerPrompt
    /\ ~cin_closed
    /\ \E line \in Offered :
        /\ IsOdd(line) => odd < MaxOdd
        /\ odd' = IF IsOdd(line) THEN odd + 1 ELSE odd
        /\ cin_buf' = cin_buf \o line \o <<CH_NL>>
        /\ resp' = IF pc = "getline"
                   THEN [resp EXCEPT ![blockCount] =
                            [typed |-> TRUE, closed |-> FALSE, line |-> line]]
                   ELSE resp
    /\ UNCHANGED <<charSigned, blockchain, blockCount, choice, pc, i, cin_closed,
                   eofbit, failbit, events, exitCode, hashVars>>

\* the user closes standard input (end of file) while the program waits in a read
UserCloseInput ==
    /\ AtDataPrompt \/ AtAnswerPrompt
    /\ ~cin_closed
    /\ cin_closed' = TRUE
    /\ resp' = IF pc = "getline"
               THEN [resp EXCEPT ![blockCount] =
                        [typed |-> FALSE, closed |-> TRUE, line |-> EmptyString]]
               ELSE resp
    /\ UNCHANGED <<charSigned, blockchain, blockCount, choice, pc, i, cin_buf,
                   eofbit, failbit, events, odd, exitCode, hashVars>>

----------------------------------------------------------------------------
(* main() *)

InitChoice_n == CH_n

\* char choice = 'y';
InitChoice == CH_y

\* the condition of the while loop
LoopCond_NoCapacity(c, count) == c = CH_y /\ count <= MAX_BLOCKS

LoopCond(c, count) == c = CH_y /\ count < MAX_BLOCKS

\* blockchain[blockCount] = createBlock(data, blockchain[blockCount - 1].hash);
AppendBlock_LinkPrevHash(chain, count, data) ==
    [chain EXCEPT ![count] = createBlock(data, chain[count - 1].prevHash)]

AppendBlock_Overwrite(chain, count, data) ==
    [chain EXCEPT ![count - 1] = createBlock(data, chain[count - 1].hash)]

AppendBlock(chain, count, data) ==
    [chain EXCEPT ![count] = createBlock(data, chain[count - 1].hash)]

\* blockchain[0] = createBlock("Genesis Block", "00000000");
GenesisBlock_NoSentinel == createBlock(GenesisData, EmptyString)

GenesisBlock == createBlock(GenesisData, Sentinel)

\* declarations, the genesis block, blockCount++, char choice = 'y'
Genesis ==
    /\ pc = "genesis"
    /\ blockchain' = [blockchain EXCEPT ![0] = GenesisBlock]
    /\ blockCount' = blockCount + 1
    /\ choice' = InitChoice
    /\ pc' = "while"
    /\ UNCHANGED <<charSigned, i, cin_buf, cin_closed, eofbit, failbit, events,
                   resp, odd, exitCode, hashVars>>

\* the number printed in "Enter data for block <N>: "
PromptNumber_Plus1(count) == count + 1

PromptNumber(count) == count

\* the loop condition holds: the data prompt is printed and getline is entered
LoopEnter ==
    /\ pc = "while"
    /\ LoopCond(choice, blockCount)
    /\ events' = Append(events, Event("prompt_data", PromptNumber(blockCount)))
    /\ pc' = "getline"
    /\ UNCHANGED <<charSigned, blockchain, blockCount, choice, i, cin_buf,
                   cin_closed, eofbit, failbit, resp, odd, exitCode, hashVars>>

\* the loop condition fails: the report's header is printed
LoopExit ==
    /\ pc = "while"
    /\ ~LoopCond(choice, blockCount)
    /\ events' = Append(events, Event("header", blockCount))
    /\ i' = 0
    /\ pc' = "report"
    /\ UNCHANGED <<charSigned, blockchain, blockCount, choice, cin_buf,
                   cin_closed, eofbit, failbit, resp, odd, exitCode, hashVars>>

\* getline returns; the block is created and appended; the continuation
\* prompt is printed
ReadData ==
    /\ pc = "getline"
    /\ GetlineReady
    /\ GetlineStream
    /\ blockchain' = AppendBlock(blockchain, blockCount, GetlineData)
    /\ blockCount' = blockCount + 1
    /\ events' = events \o <<Event("append", blockCount),
                             Event("prompt_cont", blockCount + 1)>>
    /\ pc' = "extract"
    /\ UNCHANGED <<charSigned, choice, i, cin_closed, resp, odd, exitCode,
                   hashVars>>

\* cin >> choice
ReadChoice ==
    /\ pc = "extract"
    /\ ExtractReady
    /\ IF ~good THEN
            /\ failbit' = TRUE
            /\ UNCHANGED <<choice, cin_buf, eofbit>>
       ELSE IF SkipWs(cin_buf) # <<>> THEN
            /\ choice' = Head(SkipWs(cin_buf))
            /\ cin_buf' = Tail(SkipWs(cin_buf))
            /\ UNCHANGED <<eofbit, failbit>>
       ELSE
            /\ cin_buf' = <<>>
            /\ eofbit' = TRUE
            /\ failbit' = TRUE
            /\ UNCHANGED choice
    /\ events' = Append(events, Event("answer",
                        IF ExtractOk THEN Head(SkipWs(cin_buf)) ELSE NoChar))
    /\ pc' = "ignore"
    /\ UNCHANGED <<charSigned, blockchain, blockCount, i, cin_closed, resp, odd,
                   exitCode, hashVars>>

\* cin >> choice, waiting: the white space read so far is skipped
SkipBlanks ==
    /\ pc = "extract"
    /\ ~ExtractReady
    /\ cin_buf # <<>>
    /\ cin_buf' = SkipWs(cin_buf)
    /\ UNCHANGED <<charSigned, blockchain, blockCount, choice, pc, i, cin_closed,
                   eofbit, failbit, events, resp, odd, exitCode, hashVars>>

\* cin.ignore()
IgnoreChar ==
    /\ pc = "ignore"
    /\ IgnoreReady
    /\ IF ~good THEN
            /\ failbit' = TRUE
            /\ UNCHANGED <<cin_buf, eofbit>>
       ELSE IF cin_buf # <<>> THEN
            /\ cin_buf' = Tail(cin_buf)
            /\ UNCHANGED <<eofbit, failbit>>
       ELSE
            /\ eofbit' = TRUE
            /\ UNCHANGED <<cin_buf, failbit>>
    /\ pc' = "while"
    /\ UNCHANGED <<charSigned, blockchain, blockCount, choice, i, cin_closed,
                   events, resp, odd, exitCode, hashVars>>

\* the four lines the report prints for the block at index idx
ReportLines_HashFirst(chain, idx) ==
    <<Event("block", idx),
      Event("data", chain[idx].data),
      Event("prev_hash", chain[idx].hash),
      Event("hash", chain[idx].prevHash)>>

ReportLines(chain, idx) ==
    <<Event("block", idx),
      Event("data", chain[idx].data),
      Event("prev_hash", chain[idx].prevHash),
      Event("hash", chain[idx].hash)>>

\* one iteration of the report loop: the four lines of block i
ReportBlock ==
    /\ pc = "report"
    /\ i < blockCount
    /\ events' = events \o ReportLines(blockchain, i)
    /\ i' = i + 1
    /\ UNCHANGED <<charSigned, blockchain, blockCount, choice, pc, cin_buf,
                   cin_closed, eofbit, failbit, resp, odd, exitCode, hashVars>>

ExitStatus_Failure == 0 + 1

\* return 0;
ExitStatus == 0

Return ==
    /\ pc = "report"
    /\ ~(i < blockCount)
    /\ exitCode' = ExitStatus
    /\ pc' = "exit"
    /\ UNCHANGED <<charSigned, blockchain, blockCount, choice, i, cin_buf,
                   cin_closed, eofbit, failbit, events, resp, odd, hashVars>>

\* the program starts: the array of default-constructed blocks, blockCount = 0
Init ==
    /\ charSigned \in BOOLEAN
    /\ blockchain = [k \in 0..(MAX_BLOCKS - 1) |-> EmptyBlock]
    /\ blockCount = 0
    /\ choice = 0
    /\ pc = "genesis"
    /\ i = 0
    /\ cin_buf = <<>>
    /\ cin_closed = FALSE
    /\ eofbit = FALSE
    /\ failbit = FALSE
    /\ events = <<>>
    /\ resp = [k \in 1..(MAX_BLOCKS - 1) |-> NoResp]
    /\ odd = 0
    /\ exitCode = Running
    /\ hPc = "idle"
    /\ hInput = [head |-> <<>>, fill |-> 0, count |-> 0]
    /\ hI = 0
    /\ hHash = 0
    /\ hArray = <<>>
    /\ hResult = <<>>

Next ==
    \/ Genesis
    \/ LoopEnter
    \/ LoopExit
    \/ ReadData
    \/ ReadChoice
    \/ SkipBlanks
    \/ IgnoreChar
    \/ ReportBlock
    \/ Return
    \/ UserTypeLine
    \/ UserCloseInput

Spec == Init /\ [][Next]_vars

\* the steps of the program, and the steps of the user
ProgramStep ==
    \/ Genesis
    \/ LoopEnter
    \/ LoopExit
    \/ ReadData
    \/ ReadChoice
    \/ SkipBlanks
    \/ IgnoreChar
    \/ ReportBlock
    \/ Return

UserStep == UserTypeLine \/ UserCloseInput

\* the program runs whenever it can, and a user who is waited for
\* eventually types a line or closes the input
FairSpec == Spec /\ WF_vars(ProgramStep) /\ WF_vars(UserStep)

----------------------------------------------------------------------------
(* One call of simpleHash, statement by statement *)

\* The harness keeps its input string as explicit bytes followed by a run of
\* one repeated byte:  head \o <<fill, ..., fill>>  (count times)
Str(head, fill, count) == [head |-> head, fill |-> fill, count |-> count]

\* input.length()
InputLength(str) == Len(str.head) + str.count

\* input[idx], for 0-based idx
InputAt(str, idx) == IF idx < Len(str.head) THEN str.head[idx + 1] ELSE str.fill

HashBytes == {65, 66, 200}                       \* 'A', 'B', a byte above 127
Hello == <<72, 101, 108, 108, 111>>              \* "Hello"

RECURSIVE StringsUpTo(_)
StringsUpTo(n) ==
    IF n = 0 THEN {<<>>}
    ELSE LET shorter == StringsUpTo(n - 1)
         IN  shorter \cup {Append(s, c) : s \in shorter, c \in HashBytes}

\* '~' repeated LongLen and 2 * LongLen times
LongInputs == {Str(<<>>, 126, LongLen), Str(<<>>, 126, 2 * LongLen)}

HashInputs ==
    {Str(s, 0, 0) : s \in StringsUpTo(MaxHashLen) \cup {Hello, GenesisData \o Sentinel}}
        \cup LongInputs

\* hash += (int)input[i] * (i + 1);  i++
HashLoop ==
    /\ hPc = "sum"
    /\ hI < InputLength(hInput)
    /\ hHash' = Accumulate(hHash, InputAt(hInput, hI), hI)
    /\ hI' = hI + 1
    /\ UNCHANGED <<charSigned, mainVars, hPc, hInput, hArray, hResult>>

\* the first loop ends; char hashArray[9]; the second loop starts at i = 0
HashLoopEnd ==
    /\ hPc = "sum"
    /\ ~(hI < InputLength(hInput))
    /\ hI' = 0
    /\ hPc' = "hex"
    /\ UNCHANGED <<charSigned, mainVars, hInput, hHash, hArray, hResult>>

\* hashArray[i] = the hex character of nibble i;  i++
HexLoop ==
    /\ hPc = "hex"
    /\ hI < 8
    /\ hArray' = Append(hArray, HexDigit(Nibble(hHash, hI)))
    /\ hI' = hI + 1
    /\ UNCHANGED <<charSigned, mainVars, hPc, hInput, hHash, hResult>>

\* hashArray[8] = '\0'; return string(hashArray);
HashReturn ==
    /\ hPc = "hex"
    /\ ~(hI < 8)
    /\ hArray' = Append(hArray, 0)
    /\ hResult' = CString(hArray')
    /\ hPc' = "done"
    /\ UNCHANGED <<charSigned, mainVars, hInput, hI, hHash>>

\* simpleHash is entered with some input; main() is not running
HashInit ==
    /\ charSigned \in BOOLEAN
    /\ blockchain = [k \in 0..(MAX_BLOCKS - 1) |-> EmptyBlock]
    /\ blockCount = 0
    /\ choice = 0
    /\ pc = "none"
    /\ i = 0
    /\ cin_buf = <<>>
    /\ cin_closed = FALSE
    /\ eofbit = FALSE
    /\ failbit = FALSE
    /\ events = <<>>
    /\ resp = [k \in 1..(MAX_BLOCKS - 1) |-> NoResp]
    /\ odd = 0
    /\ exitCode = Running
    /\ hPc = "sum"
    /\ hInput \in HashInputs
    /\ hI = 0
    /\ hHash = 0
    /\ hArray = <<>>
    /\ hResult = <<>>

HashNext ==
    \/ HashLoop
    \/ HashLoopEnd
    \/ HexLoop
    \/ HashReturn

HashSpec == HashInit /\ [][HashNext]_vars

\* the program, or a call of simpleHash on its own
AllSpec == (Init \/ HashInit) /\ [][Next \/ HashNext]_vars

----------------------------------------------------------------------------
(* Vocabulary of the properties *)

UserBlocks == 1..(blockCount - 1)

Prompts == {"prompt_data", "prompt_cont"}

\* positions in the history of the events of one kind
EventsOf(kind) == {j \in DOMAIN events : events[j].kind = kind}

\* the continuation answers 'y' read so far
\* the kinds of the lines of the report
ReportKinds == {"header", "block", "data", "prev_hash", "hash"}

YesAnswers == {j \in EventsOf("answer") : events[j].n = CH_y}

\* the first continuation answer was a character other than 'y'
FirstAnswerDeclines ==
    /\ EventsOf("answer") # {}
    /\ LET first == CHOOSE j \in EventsOf("answer") :
                        \A m \in EventsOf("answer") : j <= m
       IN  events[first].n \notin {CH_y, NoChar}

HexChars == (48..57) \cup (65..70)

IsDigest(str) == Len(str) = 8 /\ \A k \in 1..Len(str) : str[k] \in HexChars

----------------------------------------------------------------------------
(* C1: chain linkage.  In every reachable state, every block at an index   *)
(* i with 1 <= i < blockCount has prevHash equal to the hash of block i-1. *)
ChainLinkage ==
    \A k \in UserBlocks : blockchain[k].prevHash = blockchain[k - 1].hash

\* three user blocks with different content have been appended
ChainLinkage_Witness ==
    /\ blockCount >= 4
    /\ blockchain[2].data # blockchain[1].data
    /\ blockchain[3].hash # blockchain[2].hash

----------------------------------------------------------------------------
(* C2: capacity bound.  blockCount never exceeds MAX_BLOCKS; a block is    *)
(* only ever written at index blockCount with 1 <= blockCount <= 9, the    *)
(* k-th append writes index k (no wrap-around), so at most 9 user blocks   *)
(* follow genesis whatever the run of 'y' answers.                         *)
CapacityBound ==
    /\ blockCount \in 0..MAX_BLOCKS
    /\ pc = "getline" => blockCount \in 1..(MAX_BLOCKS - 1)
    /\ \A j \in EventsOf("append") :
        /\ events[j].n \in 1..(MAX_BLOCKS - 1)
        /\ events[j].n = Cardinality({m \in EventsOf("append") : m <= j})

\* the chain is full and every one of the nine continuation answers was 'y'
CapacityBound_Witness ==
    /\ pc = "exit"
    /\ blockCount = MAX_BLOCKS
    /\ Cardinality(YesAnswers) = MAX_BLOCKS - 1

----------------------------------------------------------------------------
(* C3: once the append that fills the chain (index MAX_BLOCKS - 1) has     *)
(* happened, no prompt of either kind is issued any more.  Stated for the  *)
(* runs that filled the chain by answering 'y' after each of the first     *)
(* eight user blocks.                                                      *)
NoPromptAtCapacity ==
    \A j \in EventsOf("append") : \A k \in DOMAIN events :
        ( /\ events[j].n = MAX_BLOCKS - 1
          /\ Cardinality({a \in YesAnswers : a < j}) = MAX_BLOCKS - 2
          /\ k > j )
        => events[k].kind \notin Prompts

----------------------------------------------------------------------------
(* C4, as stated: a finished run in which the user's first continuation    *)
(* answer declines has a chain of length 1, the genesis block alone.       *)
ZeroUserBlocks ==
    (pc = "exit" /\ FirstAnswerDeclines) => blockCount = 1

(* C4, amended: the first data prompt is unconditional, so no answer is    *)
(* read before the first user block is appended, every finished run has at *)
(* least 2 blocks, and a run whose first answer declines ends with exactly *)
(* 2: genesis and one user block.                                          *)
OneUserBlockAtLeast ==
    /\ pc \in {"report", "exit"} => blockCount >= 2
    /\ \A j \in EventsOf("answer") : \E m \in EventsOf("append") : m < j
    /\ (pc = "exit" /\ FirstAnswerDeclines) =>
            /\ blockCount = 2
            /\ blockchain[0].data = GenesisData

\* a finished run in which the user answered 'n' at the first opportunity
OneUserBlockAtLeast_Witness ==
    /\ pc = "exit"
    /\ blockCount = 2
    /\ EventsOf("answer") # {}
    /\ \A j \in EventsOf("answer") : events[j].n = CH_n

----------------------------------------------------------------------------
(* C5: genesis invariant.  Before the genesis block exists nothing has     *)
(* been printed or read; from then on block 0 holds "Genesis Block" and    *)
(* the sentinel; the loop never writes index 0, and a later block carries  *)
(* the sentinel value only if it is its predecessor's digest.              *)
GenesisInvariant ==
    /\ pc = "genesis" =>
            blockCount = 0 /\ events = <<>> /\ cin_buf = <<>> /\ ~cin_closed
    /\ pc \notin {"genesis", "none"} =>
            /\ blockCount >= 1
            /\ blockchain[0].data = GenesisData
            /\ blockchain[0].prevHash = Sentinel
    /\ \A j \in EventsOf("append") : events[j].n >= 1
    /\ \A k \in UserBlocks :
            blockchain[k].prevHash = Sentinel => blockchain[k - 1].hash = Sentinel

\* a finished run with user blocks behind the genesis block
GenesisInvariant_Witness ==
    /\ pc = "exit"
    /\ blockCount >= 3
    /\ blockchain[0].prevHash = Sentinel
    /\ blockchain[1].prevHash # Sentinel

----------------------------------------------------------------------------
(* C6: digest integrity.  Always, every block of the chain has             *)
(* hash = simpleHash(data followed directly by prevHash); and no step      *)
(* changes the hash of a block that is already in the chain.               *)
DigestIntegrity ==
    /\ [](\A k \in 0..(blockCount - 1) :
            blockchain[k].hash = simpleHash(blockchain[k].data \o blockchain[k].prevHash))
    /\ [][\A k \in 0..(blockCount - 1) : blockchain'[k].hash = blockchain[k].hash]_vars

\* user blocks with content, and an empty one, are in a finished chain
DigestIntegrity_Witness ==
    /\ pc = "exit"
    /\ blockCount >= 3
    /\ \E k \in UserBlocks : blockchain[k].data # EmptyString
    /\ \E k \in UserBlocks : blockchain[k].data = EmptyString

----------------------------------------------------------------------------
(* The mathematical value of a digest and of a weighted sum *)

\* a number q * 65536 + r, kept as <<q, r>> with r in 0..65535
Carry(q, r) == <<q + (r \div 65536), r % 65536>>

\* the sum over the positions lo..hi (1-based) of code(char) * position
RECURSIVE WeightedSum(_, _, _)
WeightedSum(str, lo, hi) ==
    IF lo > hi THEN <<0, 0>>
    ELSE IF lo = hi THEN Carry(0, CharToInt(InputAt(str, lo - 1)) * lo)
    ELSE LET mid == (lo + hi) \div 2
             a == WeightedSum(str, lo, mid)
             b == WeightedSum(str, mid + 1, hi)
         IN  Carry(a[1] + b[1], a[2] + b[2])

\* that number reduced modulo 2^32 into the range of a signed 32-bit int
ToInt32(p) ==
    LET q == p[1] % 65536
    IN  IF q >= 32768 THEN (q - 65536) * 65536 + p[2] ELSE q * 65536 + p[2]

DigitValue(ch) == IF ch \in 48..57 THEN ch - 48 ELSE ch - 55

\* the signed 32-bit number whose hex digits, least significant first, are str
RECURSIVE LowDigits(_, _)
LowDigits(str, k) ==
    IF k = 0 THEN 0 ELSE LowDigits(str, k - 1) + DigitValue(str[k]) * (16 ^ (k - 1))

DigestValue(str) ==
    LET top == DigitValue(str[8])
    IN  (IF top >= 8 THEN top - 16 ELSE top) * (16 ^ 7) + LowDigits(str, 7)

\* what simpleHash returned is the digest of the wrapped weighted sum
HasherGeneral ==
    /\ IsDigest(hResult)
    /\ hHash = ToInt32(WeightedSum(hInput, 1, InputLength(hInput)))
    /\ DigestValue(hResult) = hHash

----------------------------------------------------------------------------
----------------------------------------------------------------------------
(* C8: fixed-length digest.  Whatever the accumulator (wrapped, negative), *)
(* simpleHash returns exactly 8 characters, each in 0-9 or A-F; and every  *)
(* hash and prevHash stored in the chain is such a string.                 *)
FixedLengthDigest ==
    /\ hPc = "done" => IsDigest(hResult)
    /\ \A k \in 0..(blockCount - 1) :
            IsDigest(blockchain[k].hash) /\ IsDigest(blockchain[k].prevHash)

\* simpleHash has returned for an input whose accumulator wrapped around to
\* a negative number
FixedLengthDigest_Witness ==
    /\ hPc = "done"
    /\ hInput \in LongInputs
    /\ hHash < 0

----------------------------------------------------------------------------
(* C9: continuation decision.  A data prompt for a further block is        *)
(* issued only right after a continuation answer that was read as 'y',     *)
(* with room left in the chain; and an answer that is a character other    *)
(* than 'y' is followed by the report, with no prompt or append.           *)
ContinuationDecision ==
    \A j \in DOMAIN events :
        /\ (events[j].kind = "prompt_data" /\ events[j].n >= 2) =>
                /\ events[j - 1].kind = "answer"
                /\ events[j - 1].n = CH_y
                /\ events[j].n < MAX_BLOCKS
        /\ (events[j].kind = "answer" /\ events[j].n \notin {CH_y, NoChar}) =>
                \A k \in DOMAIN events : k > j => events[k].kind \in ReportKinds

----------------------------------------------------------------------------
(* C10: verbatim content.  The data of every user block is the line the    *)
(* user typed at that block's own data prompt (or empty, when the input    *)
(* had ended and there was no line).                                       *)
VerbatimContent ==
    \A k \in UserBlocks :
        \/ resp[k].typed /\ blockchain[k].data = resp[k].line
        \/ ~resp[k].typed /\ cin_closed /\ blockchain[k].data = EmptyString

----------------------------------------------------------------------------
(* C11: append-only chain.  Every step leaves the blocks already in the    *)
(* chain (indices 0..blockCount-1) as they are; blockCount never decreases *)
(* and grows by exactly 1 with every write to the array; and once the      *)
(* loop has ended (report, exit) the chain is not touched again.           *)
AppendOnly ==
    [][ /\ \A k \in 0..(blockCount - 1) : blockchain'[k] = blockchain[k]
        /\ blockCount' \in {blockCount, blockCount + 1}
        /\ (blockchain' # blockchain) <=> (blockCount' = blockCount + 1)
        /\ pc \in {"report", "exit"} => UNCHANGED <<blockchain, blockCount>>
      ]_vars

\* the report of a chain with several user blocks has been printed
AppendOnly_Witness ==
    /\ pc = "exit"
    /\ blockCount >= 4
    /\ i = blockCount

----------------------------------------------------------------------------
(* C12, as stated: every run reaches the end of main() with exit code 0.   *)
Termination == <>(pc = "exit" /\ exitCode = 0)

(* C12, amended: no run appends more than 9 user blocks and a run that     *)
(* ends does so after the report with exit code 0; every run ends, except  *)
(* that a run fed nothing but white space at a continuation read stays in  *)
(* cin >> choice forever.                                                  *)
TerminationUnlessBlank ==
    /\ [](Cardinality(EventsOf("append")) <= MAX_BLOCKS - 1)
    /\ [](pc = "exit" => (exitCode = 0 /\ i = blockCount))
    /\ (<>(pc = "exit") \/ <>[](pc = "extract"))

\* the input ended early and the run still finished, with a full chain
TerminationUnlessBlank_Witness ==
    /\ pc = "exit"
    /\ exitCode = 0
    /\ cin_closed
    /\ blockCount = MAX_BLOCKS

----------------------------------------------------------------------------
(* C13: rendering order.  The report starts after the last append; it      *)
(* prints the blocks in index order 0, 1, ..., each as index, data,        *)
(* prevHash, hash with the values stored in the chain at that index; and   *)
(* when the program has ended it has printed exactly blockCount blocks.    *)
RenderingOrder ==
    IF pc \in {"report", "exit"} THEN
        /\ Cardinality(EventsOf("header")) = 1
        /\ LET h == CHOOSE j \in EventsOf("header") : TRUE
           IN  /\ \A j \in EventsOf("append") : j < h
               /\ \A j \in DOMAIN events : events[j].kind \in ReportKinds <=> j >= h
               /\ events[h].n = blockCount
               /\ Len(events) = h + 4 * i
               /\ \A k \in 0..(i - 1) :
                    /\ events[h + 4 * k + 1] = Event("block", k)
                    /\ events[h + 4 * k + 2] = Event("data", blockchain[k].data)
                    /\ events[h + 4 * k + 3] = Event("prev_hash", blockchain[k].prevHash)
                    /\ events[h + 4 * k + 4] = Event("hash", blockchain[k].hash)
        /\ i <= blockCount
        /\ pc = "exit" => i = blockCount
    ELSE \A j \in DOMAIN events : events[j].kind \notin ReportKinds

\* a finished report of at least three blocks
RenderingOrder_Witness ==
    /\ pc = "exit"
    /\ blockCount >= 3
    /\ Len(events) >= 4 * blockCount
    /\ events[Len(events)] = Event("hash", blockchain[blockCount - 1].hash)

----------------------------------------------------------------------------
\* the data prompt and the report line of the block appended at event a
PromptOf(a) == a - 1
ReportLinesOf(a) == {b \in EventsOf("block") : events[b].n = events[a].n}

(* C14, as stated: the number in the data prompt is one more than the      *)
(* index under which the block created at that prompt is printed.          *)
PromptNumberOneBased ==
    \A a \in EventsOf("append") :
        /\ events[PromptOf(a)].kind = "prompt_data"
        /\ \A b \in ReportLinesOf(a) : events[PromptOf(a)].n = events[b].n + 1

(* C14, amended: the number in the data prompt is the index at which the   *)
(* block is stored and under which it is printed ("Block <N>:"), genesis   *)
(* being block 0; it is the number of blocks in the chain at the prompt.   *)
PromptNumberIsIndex ==
    \A a \in EventsOf("append") :
        /\ events[PromptOf(a)].kind = "prompt_data"
        /\ events[PromptOf(a)].n = events[a].n
        /\ events[PromptOf(a)].n = 1 + Cardinality({m \in EventsOf("append") : m < a})
        /\ \A b \in ReportLinesOf(a) : events[PromptOf(a)].n = events[b].n
        /\ pc = "exit" => Cardinality(ReportLinesOf(a)) = 1

\* two user blocks were prompted for, appended and printed
PromptNumberIsIndex_Witness ==
    /\ pc = "exit"
    /\ blockCount = 3
    /\ \E a \in EventsOf("append") :
            events[a].n = 2 /\ events[PromptOf(a)].n = 2 /\ ReportLinesOf(a) # {}

----------------------------------------------------------------------------
AB == Str(<<CH_A, CH_A + 1>>, 0, 0)
BA == Str(<<CH_A + 1, CH_A>>, 0, 0)

(* C15: position sensitivity.  The digest simpleHash returns for "AB"      *)
(* differs from the digest it returns for "BA".                            *)
PositionSensitivity ==
    hPc = "done" =>
        /\ hInput = AB => (hResult = simpleHash(AB.head) /\ hResult # simpleHash(BA.head))
        /\ hInput = BA => (hResult = simpleHash(BA.head) /\ hResult # simpleHash(AB.head))

\* simpleHash has returned for "AB"
PositionSensitivity_Witness ==
    /\ hPc = "done"
    /\ hInput = AB
    /\ hHash = CH_A + 2 * (CH_A + 1)

----------------------------------------------------------------------------
\* the events of the prompt/append protocol, in order
IsProtocolEvent(e) == e.kind \in {"prompt_data", "append", "prompt_cont"}
Protocol == SelectSeq(events, IsProtocolEvent)
ProtocolKind(k) ==
    IF k % 3 = 1 THEN "prompt_data" ELSE IF k % 3 = 2 THEN "append" ELSE "prompt_cont"

\* the buffer after getline has taken its line
AfterLine(buf) ==
    IF HasNewline(buf) THEN SubSeq(buf, FirstNewline(buf) + 1, Len(buf)) ELSE <<>>

(* C17: prompt/append protocol.  Data prompts and continuation prompts     *)
(* alternate, with exactly one append between a data prompt and the        *)
(* continuation prompt that follows it; a data prompt is issued only       *)
(* while blockCount < 10; blockCount is 1 + the number of data prompts     *)
(* answered; and the step that answers a data prompt reads one line,       *)
(* appends one block whose prevHash is the hash of the last block, and     *)
(* prints the continuation prompt.                                         *)
PromptAppendProtocol ==
    /\ [](pc # "genesis" =>
            /\ \A k \in DOMAIN Protocol : Protocol[k].kind = ProtocolKind(k)
            /\ \A k \in DOMAIN Protocol :
                    Protocol[k].kind = "prompt_data" =>
                        /\ Protocol[k].n < MAX_BLOCKS
                        /\ Protocol[k].n = 1 + (k - 1) \div 3
            /\ blockCount = 1 + Cardinality(EventsOf("append"))
            /\ (pc = "getline") <=> (Len(Protocol) % 3 = 1))
    /\ [][(pc # "genesis" /\ <<blockchain, blockCount>>' # <<blockchain, blockCount>>) =>
            /\ pc = "getline"
            /\ events[Len(events)].kind = "prompt_data"
            /\ blockCount' = blockCount + 1
            /\ blockchain'[blockCount].prevHash = blockchain[blockCount - 1].hash
            /\ blockchain'[blockCount].data = GetlineData
            /\ good => cin_buf' = AfterLine(cin_buf)
            /\ events' = events \o <<Event("append", blockCount),
                                     Event("prompt_cont", blockCount')>>
          ]_vars

\* three rounds of the protocol are complete and a fourth data prompt is out
PromptAppendProtocol_Witness ==
    /\ pc = "getline"
    /\ blockCount = 4
    /\ Len(Protocol) = 10

----------------------------------------------------------------------------
(* C18: character codes.  Each turn of the first loop adds to hash the     *)
(* character's byte value 0..255 times its 1-based position; the code is   *)
(* not sign-extended.                                                      *)
UnsignedCodes ==
    [][(hPc = "sum" /\ hI' = hI + 1) =>
            hHash' = Add32(hHash, InputAt(hInput, hI) * (hI + 1))]_vars

====
